---------------------------- MODULE Spec2Model ----------------------------
(***************************************************************************)
(* Model of chatbot/main.py: the FinanceBot object (its two fields), its   *)
(* six methods and the main() loop.                                        *)
(*                                                                         *)
(* Numbers.  Python floats are modelled in fixed point:                    *)
(*   - a fraction f (0.10) is the integer f * 10^5;                        *)
(*   - a percentage p (3.858) is the integer p * 10^5;                     *)
(*   - a price is an integer number of currency units;                     *)
(*   - a currency result of amount * fraction is in units of 10^-5.        *)
(* Strings that the code parses are sequences of one-character strings.    *)
(* An operator that models a Python function returns [exc, ret]: exc is    *)
(* "None" when the function returns ret, else the exception it raises.     *)
(***************************************************************************)
EXTENDS Integers, Sequences, FiniteSets, TLC

VARIABLES api_key, conversation_history, sp500_historical_return,
          pc, pending, result, analyses

vars == <<api_key, conversation_history, sp500_historical_return,
          pc, pending, result, analyses>>

\* Bound on the number of user turns the main loop takes.
MaxTurns == 3

\* Bound on the number of analyzer calls that are counted.
MaxAnalyses == 2

None == "None"

Ret(v) == [exc |-> None, ret |-> v]
Raise(e) == [exc |-> e, ret |-> None]

Max(a, b) == IF a >= b THEN a ELSE b

\* the element of a one-element set; {e(x) : x \in {v}} computes v once
Only(S) == CHOOSE v \in S : TRUE

-----------------------------------------------------------------------------
(* str.strip, str.replace('%', ''), float() and str.lower                 *)

IsSpace(c) == c = " "
Digits == <<"0", "1", "2", "3", "4", "5", "6", "7", "8", "9">>
IsDigit(c) == \E i \in 1..10 : Digits[i] = c
DigitVal(c) == (CHOOSE i \in 1..10 : Digits[i] = c) - 1

RECURSIVE LStrip(_)
LStrip(text) ==
    Only({IF s # <<>> /\ IsSpace(Head(s)) THEN LStrip(Tail(s)) ELSE s :
             s \in {text}})

RECURSIVE RStrip(_)
RStrip(text) ==
    Only({IF s # <<>> /\ IsSpace(s[Len(s)])
          THEN RStrip(SubSeq(s, 1, Len(s) - 1)) ELSE s : s \in {text}})

Strip(s) == RStrip(LStrip(s))

NotPercent(c) == c # "%"
ReplacePercent(s) == SelectSeq(s, NotPercent)

\* value of a digit string, most significant digit first
RECURSIVE DigitsValue(_)
DigitsValue(text) ==
    Only({IF s = <<>> THEN 0
          ELSE DigitsValue(SubSeq(s, 1, Len(s) - 1)) * 10
               + DigitVal(s[Len(s)]) : s \in {text}})

RECURSIVE Pow10Int(_)
Pow10Int(n) == IF n = 0 THEN 1 ELSE 10 * Pow10Int(n - 1)

\* fixed-point unit: five decimals
Scale == Pow10Int(5)

AllDigits(s) == \A i \in 1..Len(s) : IsDigit(s[i])
DotAt(s) == IF \E i \in 1..Len(s) : s[i] = "."
            THEN CHOOSE i \in 1..Len(s) :
                     s[i] = "." /\ \A j \in 1..(i - 1) : s[j] # "."
            ELSE 0

\* float(text): surrounding whitespace is ignored; digits with at most one
\* decimal point and up to five decimals; anything else is a ValueError.
FloatOfStripped(s) ==
    LET neg == s # <<>> /\ Head(s) = "-"
        signed == s # <<>> /\ (Head(s) = "-" \/ Head(s) = "+")
    IN  Only({
          LET d == DotAt(u)
          IN  Only({
                IF /\ Len(whole) + Len(frac) > 0
                   /\ AllDigits(whole) /\ AllDigits(frac) /\ Len(frac) <= 5
                THEN Only({Ret(IF neg THEN 0 - mag ELSE mag) :
                             mag \in {DigitsValue(whole) * Scale
                                      + DigitsValue(frac)
                                          * Pow10Int(5 - Len(frac))}})
                ELSE Raise("ValueError") :
                  whole \in {IF d = 0 THEN u ELSE SubSeq(u, 1, d - 1)},
                  frac \in {IF d = 0 THEN <<>> ELSE SubSeq(u, d + 1, Len(u))}}) :
            u \in {IF signed THEN Tail(s) ELSE s}})

Float(text) == Only({FloatOfStripped(s) : s \in {Strip(text)}})

LowerChar(c) == CASE c = "S" -> "s" [] c = "A" -> "a" [] c = "I" -> "i"
                  [] c = "R" -> "r" [] c = "O" -> "o" [] c = "L" -> "l"
                  [] OTHER -> c
Lower(s) == [i \in 1..Len(s) |-> LowerChar(s[i])]

-----------------------------------------------------------------------------
(* get_euribor_rates                                                      *)

terms == <<"1 week", "1 month", "3 months", "6 months", "12 months">>
Terms == {terms[i] : i \in 1..Len(terms)}

FallbackRates == [t \in Terms |->
    CASE t = "1 week" -> 385800 [] t = "1 month" -> 392300
      [] t = "3 months" -> 392700 [] t = "6 months" -> 389200
      [] t = "12 months" -> 371800]

\* Text of the <td> that follows each tenor label on the live page.
LiveCells == [t \in Terms |->
    CASE t = "1 week" -> <<"3", ".", "6", "5", "%">>
      [] t = "1 month" -> <<"3", ".", "7", "%">>
      [] t = "3 months" -> <<" ", "3", ".", "7", "5", " ", "%">>
      [] t = "6 months" -> <<"3", ".", "8", "1", "2", "%">>
      [] t = "12 months" -> <<"3", ".", "6", "0", "1", "%", " ">>]

\* What the live page holds when every tenor parses.
LiveRates == [t \in Terms |-> Float(ReplacePercent(Strip(LiveCells[t]))).ret]

Absent == <<"absent">>
BadCell == <<"n", "/", "a">>

\* The external world seen by one call: the outcome of requests.get and of
\* BeautifulSoup, and the page: the live page, or the live page with the
\* cell of tenor number `broken` replaced (Absent: no text node or no <td>).
RateEnvs ==
    {[request |-> "ok", soup |-> "ok", broken |-> 0, cell |-> Absent],
     [request |-> "ConnectionError", soup |-> "ok", broken |-> 0,
      cell |-> Absent],
     [request |-> "ok", soup |-> "ParserError", broken |-> 0, cell |-> Absent]}
    \cup {[request |-> "ok", soup |-> "ok", broken |-> k, cell |-> c] :
             k \in 1..Len(terms), c \in {Absent, BadCell}}

CellsOf(env) == [t \in Terms |->
    IF env.broken > 0 /\ t = terms[env.broken] THEN env.cell ELSE LiveCells[t]]

\* ExtractRates with each tenor guarded on its own: a tenor that fails takes
\* its fallback value and the loop goes on
RECURSIVE ExtractRatesPerTerm(_, _, _)
ExtractRatesPerTerm(i, rates, cells) ==
    IF i > Len(terms) THEN Ret(rates)
    ELSE LET term == terms[i]
             cell == cells[term]
         IN  Only({
               Only({ExtractRatesPerTerm(i + 1, next, cells) :
                       next \in {[t \in (DOMAIN rates) \cup {term} |->
                           IF t # term THEN rates[t]
                           ELSE IF rate.exc # None THEN FallbackRates[term]
                           ELSE rate.ret]}}) :
                 rate \in {IF cell = Absent THEN Raise("AttributeError")
                           ELSE Float(ReplacePercent(Strip(cell)))}})

\* the for loop of lines 39-43; rates is the dict built so far
RECURSIVE ExtractRates(_, _, _)
ExtractRates(i, rates, cells) ==
    IF i > Len(terms) THEN Ret(rates)
    ELSE LET term == terms[i]
             cell == cells[term]
         IN  IF cell = Absent THEN Raise("AttributeError")
             ELSE Only({
                    IF rate.exc # None THEN Raise(rate.exc)
                    ELSE Only({ExtractRates(i + 1, next, cells) :
                                 next \in {[t \in (DOMAIN rates) \cup {term} |->
                                     IF t = term THEN rate.ret ELSE rates[t]]}}) :
                      rate \in {Float(ReplacePercent(Strip(cell)))}})

\* the try block of lines 30-45
TryEuribor(env) ==
    IF env.request # "ok" THEN Raise(env.request)
    ELSE IF env.soup # "ok" THEN Raise(env.soup)
    ELSE ExtractRates(1, <<>>, CellsOf(env))

\* TryEuribor, evaluated once for each external world
LiveEuribor == [env \in RateEnvs |-> TryEuribor(env)]

\* get_euribor_rates catching only the failure of the request
get_euribor_rates_request_only(env) ==
    LET live == LiveEuribor[env]
    IN  IF live.exc = None
        THEN [exc |-> None, ret |-> live.ret, requests |-> 1]
        ELSE IF live.exc = "ConnectionError"
        THEN [exc |-> None, ret |-> FallbackRates, requests |-> 1]
        ELSE [exc |-> live.exc, ret |-> None, requests |-> 1]

\* Returns the table and the number of HTTP requests made.
get_euribor_rates(env) ==
    LET live == LiveEuribor[env]
    IN  IF live.exc = None
        THEN [exc |-> None, ret |-> live.ret, requests |-> 1]
        ELSE [exc |-> None, ret |-> FallbackRates, requests |-> 1]

-----------------------------------------------------------------------------
(* get_sp500_performance                                                  *)

\* p * g for fixed-point p, g, rounded to the nearest unit; the product is
\* split so that no intermediate value leaves 32 bits
MulFix(p, g) ==
    Only({(a \div 100)
          + ((a % 100) * 1000 + (p % 1000) * g + Scale \div 2) \div Scale :
            a \in {(p \div 1000) * g}})

\* g ** 10 in fixed point; once the power exceeds cap it is left as it is
RECURSIVE PowCap(_, _, _, _)
PowCap(p, g, n, cap) ==
    IF n = 0 \/ p > cap THEN p
    ELSE Only({PowCap(q, g, m, cap) : q \in {MulFix(p, g)}, m \in {n - 1}})

Pow10(g, cap) == PowCap(g, g, 9, cap)

\* largest g in lo..hi with g ** 10 <= r  (r ** (1/10))
RECURSIVE RootSearch(_, _, _)
RootSearch(lo, hi, r) ==
    IF lo >= hi THEN lo
    ELSE Only({IF Pow10(mid, r) <= r THEN RootSearch(mid, hi, r)
               ELSE Only({RootSearch(lo, below, r) : below \in {mid - 1}}) :
                 mid \in {(lo + hi + 1) \div 2}})

Root10(r) == Only({RootSearch(0, hi, r) : hi \in {Max(r, Scale)}})

\* What yfinance returns for the ten-year history of ^GSPC: an error, or the
\* 'Close' column.
PerfEnvs ==
    {[history |-> "ConnectionError", Close |-> <<>>],
     [history |-> "ok", Close |-> <<>>],
     [history |-> "ok", Close |-> <<100>>],
     [history |-> "ok", Close |-> <<100, 200>>],
     [history |-> "ok", Close |-> <<2000, 1500, 5000>>]}

PerfFallback(self) ==
    [current_price |-> 4500,
     total_return_10y |-> 150 * Scale,
     annual_return |-> self.sp500_historical_return * 100]

\* the try block of lines 59-79
TrySp500(env) ==
    IF env.history # "ok" THEN Raise(env.history)
    ELSE IF Len(env.Close) = 0 THEN Raise("IndexError")
    ELSE LET initial_price == env.Close[1]
             final_price == env.Close[Len(env.Close)]
         IN  Only({
               Only({Ret([current_price |-> final_price,
                          total_return_10y |-> total_return * 100,
                          annual_return |-> annual_return * 100]) :
                       annual_return \in {Root10(Scale + total_return) - Scale}}) :
                 total_return \in {((final_price - initial_price) * Scale)
                                      \div initial_price}})

\* TrySp500, evaluated once for each external world
LiveSp500 == [env \in PerfEnvs |-> TrySp500(env)]

\* get_sp500_performance catching only the failure of the download
get_sp500_performance_download_only(self, env) ==
    LET live == LiveSp500[env]
    IN  IF live.exc = None THEN live
        ELSE IF live.exc = "ConnectionError" THEN Ret(PerfFallback(self))
        ELSE live

get_sp500_performance(self, env) ==
    LET live == LiveSp500[env]
    IN  IF live.exc = None THEN live ELSE Ret(PerfFallback(self))

-----------------------------------------------------------------------------
(* get_stock_info                                                         *)

InfoKeys == {"currentPrice", "dividendYield", "fiftyDayAverage", "shortName"}

\* the values are passed through untouched and are kept as written
InfoValue(k) == CASE k = "currentPrice" -> "189.50"
                  [] k = "dividendYield" -> "0.0052"
                  [] k = "fiftyDayAverage" -> "181.20"
                  [] k = "shortName" -> "Apple Inc."

\* What yfinance returns for Ticker(symbol).info: an error, or a dict that
\* holds any subset of the keys.
StockEnvs ==
    {[info |-> e, dict |-> <<>>] : e \in {"HTTPError", "KeyError"}}
    \cup {[info |-> "ok", dict |-> [k \in ks |-> InfoValue(k)]] :
             ks \in SUBSET InfoKeys}

\* dict.get(key, "0.0")
GetOrZero(dict, key) == IF key \in DOMAIN dict THEN dict[key] ELSE "0.0"

\* dict.get(key)
Get(dict, key) == IF key \in DOMAIN dict THEN dict[key] ELSE None

get_stock_info(env) ==
    IF env.info # "ok" THEN Ret([error |-> env.info])
    ELSE Ret([current_price |-> Get(env.dict, "currentPrice"),
              dividend_yield |-> Get(env.dict, "dividendYield"),
              fifty_day_average |-> Get(env.dict, "fiftyDayAverage")])

-----------------------------------------------------------------------------
(* calculate_mortgage_savings                                             *)

\* loan_amount and extra_payment are whole currency units, interest_rate a
\* fixed-point percentage.  monthly_rate is in units of 10^-7 (the division
\* by 100 moves the unit), total_interest_saved in units of 10^-5 and
\* years_reduced in thousandths of a year.  The quotient
\* extra_payment / (loan_amount * monthly_rate) is taken as
\* (extra_payment / loan_amount) / monthly_rate to stay within 32 bits;
\* Python raises ZeroDivisionError when the float divisor is 0.0.
calculate_mortgage_savings(loan_amount, interest_rate, extra_payment) ==
    LET monthly_rate == interest_rate \div 12
        total_interest_saved == (extra_payment * interest_rate) \div 100
    IN  IF loan_amount = 0 \/ monthly_rate = 0 THEN Raise("ZeroDivisionError")
        ELSE LET years_reduced ==
                     (((extra_payment * Scale) \div loan_amount) * Scale)
                         \div monthly_rate
             IN  Ret([total_interest_saved |-> total_interest_saved,
                      years_reduced |-> years_reduced])

-----------------------------------------------------------------------------
(* analyze_investment_options                                             *)

\* f"{x:.2f}": a fixed-point value rounded to hundredths
Round2(x) == IF x >= 0 THEN (x + 500) \div 1000
             ELSE 0 - ((500 - x) \div 1000)

\* One formatted line: its label, and the two numbers printed in it.
Line(label, rate, value) ==
    [option |-> label, rate |-> Round2(rate), value |-> Round2(value)]

\* dict[key]
Item(dict, key) == IF key \in DOMAIN dict THEN Ret(dict[key])
                   ELSE Raise("KeyError")

\* analyze_investment_options with the two spreads exchanged
analyze_swapped_spreads(self, amount, renv, penv) ==
    LET euribor_rates == get_euribor_rates(renv)
        sp500_data == get_sp500_performance(self, penv)
        treasury_rate == euribor_rates.ret["12 months"] + (3 * Scale) \div 2
        annual_return == sp500_data.ret.annual_return
        mortgage_rate == euribor_rates.ret["6 months"] + 1 * Scale
    IN  Ret(<<Line("Certificados do Tesouro", treasury_rate,
                   amount * (treasury_rate \div 100)),
              Line("Investimento em S&P 500", annual_return,
                   amount * (annual_return \div 100)),
              Line("Amortizacao de Credito Habitacao", mortgage_rate,
                   amount * (mortgage_rate \div 100))>>)

analyze_investment_options(self, amount, renv, penv) ==
    LET euribor_rates == get_euribor_rates(renv)
        sp500_data == get_sp500_performance(self, penv)
    IN  IF euribor_rates.exc # None THEN Raise(euribor_rates.exc)
        ELSE IF sp500_data.exc # None THEN Raise(sp500_data.exc)
        ELSE LET r12 == Item(euribor_rates.ret, "12 months")
                 r6 == Item(euribor_rates.ret, "6 months")
             IN  IF r12.exc # None THEN Raise(r12.exc)
                 ELSE IF r6.exc # None THEN Raise(r6.exc)
                 ELSE LET treasury_rate == r12.ret + 1 * Scale
                          treasury_return == amount * (treasury_rate \div 100)
                          annual_return == sp500_data.ret.annual_return
                          expected_stock_return ==
                              amount * (annual_return \div 100)
                          mortgage_rate == r6.ret + (3 * Scale) \div 2
                          mortgage_savings == amount * (mortgage_rate \div 100)
                      IN  Ret(<<Line("Certificados do Tesouro",
                                     treasury_rate, treasury_return),
                                Line("Investimento em S&P 500",
                                     annual_return, expected_stock_return),
                                Line("Amortizacao de Credito Habitacao",
                                     mortgage_rate, mortgage_savings)>>)

-----------------------------------------------------------------------------
(* The bot, its caller and the main loop                                  *)

Inputs == {<<"o", "l", "a">>, <<"S", "a", "i", "r">>, <<"S", "A", "I", "R">>,
           <<"s", "a", "i", "r">>}
Replies == {<<"Ola,", "em que posso ajudar?">>}
ChatErrors == {"APIError"}
Amounts == {2500, 10000}
Loans == {100000}
InterestRates == {0, 3 * Scale}
ExtraPayments == {0, 5000}

Self == [conversation_history |-> conversation_history,
         sp500_historical_return |-> sp500_historical_return]

Call(op, in, r) ==
    [op |-> op, in |-> in, out |-> r.ret, exc |-> r.exc, before |-> Self]

NoCall == [op |-> None, in |-> None, out |-> None, exc |-> None,
           before |-> None]

UserTurns(h) == Cardinality({i \in 1..Len(h) : h[i].role = "user"})

\* the fields __init__ sets: an empty history and 0.10
FreshBot == [conversation_history |-> <<>>,
             sp500_historical_return |-> Scale \div 10]

\* FinanceBot() as main() constructs it, with or without OPENAI_API_KEY
Init ==
    /\ api_key \in {"sk-key", None}
    /\ conversation_history = FreshBot.conversation_history
    /\ sp500_historical_return = FreshBot.sp500_historical_return
    /\ analyses = 0
    /\ pending = None
    /\ IF api_key = None
       THEN /\ pc = "config_error"
            /\ result = [NoCall EXCEPT !.op = "FinanceBot", !.exc = "ValueError"]
       ELSE /\ pc = "prompt"
            /\ result = NoCall

\* main(): the user types 'sair' in any case and the loop ends
MainQuit ==
    /\ pc = "prompt"
    /\ \E user_input \in Inputs :
          /\ Lower(user_input) = <<"s", "a", "i", "r">>
          /\ pc' = "exited"
    /\ UNCHANGED <<api_key, conversation_history, sp500_historical_return,
                   pending, result, analyses>>

\* main() calls get_response, which runs up to the provider call
GetResponseCall ==
    /\ pc = "prompt"
    /\ UserTurns(conversation_history) < MaxTurns
    /\ \E user_input \in Inputs :
          /\ Lower(user_input) # <<"s", "a", "i", "r">>
          /\ conversation_history' =
                 Append(conversation_history,
                        [role |-> "user", content |-> user_input])
          /\ pending' = user_input
    /\ pc' = "chat_called"
    /\ UNCHANGED <<api_key, sp500_historical_return, result, analyses>>

Apology(e) == <<"Desculpe, ocorreu um erro: ", e>>

\* the provider answers and get_response returns bot_response
GetResponseOk ==
    /\ pc = "chat_called"
    /\ \E bot_response \in Replies :
          /\ conversation_history' =
                 Append(conversation_history,
                        [role |-> "assistant", content |-> bot_response])
          /\ result' = [op |-> "get_response", in |-> pending,
                        out |-> bot_response, exc |-> None, before |-> Self]
    /\ pc' = "prompt"
    /\ pending' = None
    /\ UNCHANGED <<api_key, sp500_historical_return, analyses>>

\* GetResponseFail that takes the user turn back out of the history
GetResponseFailRollback ==
    /\ pc = "chat_called"
    /\ \E e \in ChatErrors :
          result' = [op |-> "get_response", in |-> pending,
                     out |-> Apology(e), exc |-> None, before |-> Self]
    /\ conversation_history' =
           SubSeq(conversation_history, 1, Len(conversation_history) - 1)
    /\ pc' = "prompt"
    /\ pending' = None
    /\ UNCHANGED <<api_key, sp500_historical_return, analyses>>

\* the provider call raises and get_response returns the apology
GetResponseFail ==
    /\ pc = "chat_called"
    /\ \E e \in ChatErrors :
          result' = [op |-> "get_response", in |-> pending,
                     out |-> Apology(e), exc |-> None, before |-> Self]
    /\ pc' = "prompt"
    /\ pending' = None
    /\ UNCHANGED <<api_key, conversation_history, sp500_historical_return, analyses>>

GetEuriborRates ==
    /\ pc = "prompt"
    /\ \E env \in RateEnvs :
          result' = Call("get_euribor_rates", env, get_euribor_rates(env))
                      @@ [requests |-> get_euribor_rates(env).requests]
    /\ UNCHANGED <<api_key, conversation_history, sp500_historical_return,
                   pc, pending, analyses>>

GetSp500Performance ==
    /\ pc = "prompt"
    /\ \E env \in PerfEnvs :
          result' = Call("get_sp500_performance", env,
                         get_sp500_performance(Self, env))
    /\ UNCHANGED <<api_key, conversation_history, sp500_historical_return,
                   pc, pending, analyses>>

GetStockInfo ==
    /\ pc = "prompt"
    /\ \E env \in StockEnvs :
          result' = Call("get_stock_info", env, get_stock_info(env))
    /\ UNCHANGED <<api_key, conversation_history, sp500_historical_return,
                   pc, pending, analyses>>

CalculateMortgageSavings ==
    /\ pc = "prompt"
    /\ \E loan_amount \in Loans, interest_rate \in InterestRates,
          extra_payment \in ExtraPayments :
          result' = Call("calculate_mortgage_savings",
                         <<loan_amount, interest_rate, extra_payment>>,
                         calculate_mortgage_savings(loan_amount, interest_rate,
                                                    extra_payment))
    /\ UNCHANGED <<api_key, conversation_history, sp500_historical_return,
                   pc, pending, analyses>>

\* AnalyzeInvestmentOptions that keeps the live annual return in the bot
AnalyzeInvestmentOptionsCaching ==
    /\ pc = "prompt"
    /\ analyses < MaxAnalyses
    /\ analyses' = analyses + 1
    /\ \E amount \in Amounts, renv \in RateEnvs, penv \in PerfEnvs :
          LET in == [amount |-> amount, rates |-> renv, perf |-> penv]
              r == analyze_investment_options(Self, amount, renv, penv)
          IN  /\ result' = Call("analyze_investment_options", in, r)
              /\ sp500_historical_return' =
                     IF LiveSp500[penv].exc = None
                     THEN LiveSp500[penv].ret.annual_return \div 100
                     ELSE sp500_historical_return
    /\ UNCHANGED <<api_key, conversation_history, pc, pending>>

\* analyses counts the analyzer calls made so far
AnalyzeInvestmentOptions ==
    /\ pc = "prompt"
    /\ analyses < MaxAnalyses
    /\ analyses' = analyses + 1
    /\ \E amount \in Amounts, renv \in RateEnvs, penv \in PerfEnvs :
          LET in == [amount |-> amount, rates |-> renv, perf |-> penv]
              r == analyze_investment_options(Self, amount, renv, penv)
          IN  result' = Call("analyze_investment_options", in, r)
    /\ UNCHANGED <<api_key, conversation_history, sp500_historical_return,
                   pc, pending>>

Next ==
    \/ MainQuit
    \/ GetResponseCall
    \/ GetResponseOk
    \/ GetResponseFail
    \/ GetEuriborRates
    \/ GetSp500Performance
    \/ GetStockInfo
    \/ CalculateMortgageSavings
    \/ AnalyzeInvestmentOptions

Spec == Init /\ [][Next]_vars

-----------------------------------------------------------------------------
(* Properties                                                             *)

\* the live path of get_euribor_rates cannot complete in this world
LiveUnavailable(env) ==
    env.request # "ok" \/ env.soup # "ok" \/ env.broken > 0

\* C1: every table get_euribor_rates returns has exactly the five tenors and
\* is either the live table or the fallback table, whatever step failed;
\* no table mixes live and fallback values or lacks a tenor.
RatesAllLiveOrAllFallback ==
    result.op = "get_euribor_rates" =>
        /\ result.exc = None
        /\ DOMAIN result.out = Terms
        /\ \/ \A t \in Terms : result.out[t] = LiveRates[t]
           \/ \A t \in Terms : result.out[t] = FallbackRates[t]

\* C1 witness: the third tenor failed after two were extracted
RatesFailedMidway ==
    /\ result.op = "get_euribor_rates"
    /\ result.in.broken = 3
    /\ result.out = FallbackRates

\* C2: when the live path is unavailable get_euribor_rates makes one
\* request, raises nothing and returns exactly the fallback table.
RatesFallbackWhenUnavailable ==
    (result.op = "get_euribor_rates" /\ LiveUnavailable(result.in)) =>
        /\ result.exc = None
        /\ result.requests = 1
        /\ result.out = FallbackRates
        /\ result.out["1 week"] = 385800 /\ result.out["1 month"] = 392300
        /\ result.out["3 months"] = 392700 /\ result.out["6 months"] = 389200
        /\ result.out["12 months"] = 371800

\* C2 witness: the HTTP request failed and the call returned
RatesRequestFailed ==
    /\ result.op = "get_euribor_rates"
    /\ result.in.request = "ConnectionError"
    /\ result.exc = None

\* C3: get_sp500_performance returns exactly the fallback {4500.0, 150.0,
\* 10.0} whenever the series is unavailable or has fewer than 2 points.
PerfFallbackUnderTwoPoints ==
    (/\ result.op = "get_sp500_performance"
     /\ (result.in.history # "ok" \/ Len(result.in.Close) < 2)) =>
        /\ result.exc = None
        /\ result.out = [current_price |-> 4500,
                         total_return_10y |-> 150 * Scale,
                         annual_return |-> 10 * Scale]

\* presentation rounding: 0.01 percentage points
RoundingTolerance == Scale \div 10000

\* C4: every record get_sp500_performance returns, live or fallback, has
\* (1 + annual_return/100)^10 = 1 + total_return_10y/100 up to rounding.
AnnualIsGeometricMean ==
    result.op = "get_sp500_performance" =>
        /\ result.exc = None
        /\ LET g == Scale + result.out.annual_return \div 100
               r == Scale + result.out.total_return_10y \div 100
           IN  /\ Pow10(g - RoundingTolerance, r) <= r
               /\ r <= Pow10(g + RoundingTolerance, r)

\* C5: calculate_mortgage_savings with interest_rate = 0 and a positive
\* loan_amount raises nothing and returns total_interest_saved = 0 with a
\* defined years_reduced.
ZeroRateIsDefined ==
    (/\ result.op = "calculate_mortgage_savings"
     /\ result.in[1] > 0 /\ result.in[2] = 0) =>
        /\ result.exc = None
        /\ result.out.total_interest_saved = 0
        /\ "years_reduced" \in DOMAIN result.out

\* what the two sources supplied to the analyzer call recorded in result
SuppliedRates == get_euribor_rates(result.in.rates).ret
SuppliedPerf == get_sp500_performance(result.before, result.in.perf).ret

\* C6: the analyzer returns three lines in the order treasury, equity,
\* mortgage; treasury uses rates['12 months'] + 1.0, equity annual_return,
\* mortgage rates['6 months'] + 1.5, each with amount * rate / 100; with
\* both fallbacks and amount 10000 the rates are 4.718, 10.0, 5.392 and the
\* amounts 471.80, 1000.00, 539.20.
ThreeLinesInFixedOrder ==
    result.op = "analyze_investment_options" =>
        /\ result.exc = None
        /\ LET amount == result.in.amount
               t == SuppliedRates["12 months"] + Scale
               e == SuppliedPerf.annual_return
               m == SuppliedRates["6 months"] + Scale + Scale \div 2
               out == result.out
           IN  /\ Len(out) = 3
               /\ out[1] = [option |-> "Certificados do Tesouro",
                            rate |-> Round2(t),
                            value |-> Round2(amount * (t \div 100))]
               /\ out[2] = [option |-> "Investimento em S&P 500",
                            rate |-> Round2(e),
                            value |-> Round2(amount * (e \div 100))]
               /\ out[3] = [option |-> "Amortizacao de Credito Habitacao",
                            rate |-> Round2(m),
                            value |-> Round2(amount * (m \div 100))]
               /\ (/\ amount = 10000
                   /\ LiveUnavailable(result.in.rates)
                   /\ result.in.perf.history # "ok") =>
                      /\ t = 471800 /\ e = 1000000 /\ m = 539200
                      /\ out[1].value = 47180
                      /\ out[2].value = 100000
                      /\ out[3].value = 53920

\* C6 witness: amount 10000 analysed with both sources on their fallback
AnalyzedOnFallbacks ==
    /\ result.op = "analyze_investment_options"
    /\ result.in.amount = 10000
    /\ result.in.rates.request = "ConnectionError"
    /\ result.in.perf.history = "ConnectionError"
    /\ result.out[1].value = 47180

\* C7: whatever source fails, at whatever step, the analyzer call completes
\* and returns the three lines; no exception or error value reaches its
\* caller.
AnalyzerHasNoErrorPath ==
    result.op = "analyze_investment_options" =>
        /\ result.exc = None
        /\ Len(result.out) = 3
        /\ \A i \in 1..3 :
              DOMAIN result.out[i] = {"option", "rate", "value"}

\* C7 witness: both sources failed, the rate source at its last tenor and
\* the index source on an empty series
AnalyzedWithBothSourcesFailing ==
    /\ result.op = "analyze_investment_options"
    /\ result.in.rates.broken = 5
    /\ result.in.perf.history = "ok" /\ result.in.perf.Close = <<>>
    /\ result.exc = None

\* C8: an analyzer call leaves conversation_history and
\* sp500_historical_return as they were, and its output is the output the
\* same inputs give on a freshly constructed bot: two calls with the same
\* amount and the same source results return the same lines whatever ran in
\* between.  (result holds the analyzer call until the next call begins.)
AnalyzerKeepsNoState ==
    (result.op = "analyze_investment_options" /\ pc # "chat_called") =>
        /\ conversation_history = result.before.conversation_history
        /\ sp500_historical_return = result.before.sp500_historical_return
        /\ LET again == analyze_investment_options(FreshBot, result.in.amount,
                             result.in.rates, result.in.perf)
           IN  result.exc = again.exc /\ result.out = again.ret

\* C8 witness: a second analyzer call, on the fallback performance, after a
\* chat turn was recorded
AnalyzedTwiceAcrossChat ==
    /\ result.op = "analyze_investment_options"
    /\ analyses = 2
    /\ result.in.perf.history # "ok"
    /\ Len(conversation_history) >= 2

InfoKeyOf(field) == CASE field = "current_price" -> "currentPrice"
                      [] field = "dividend_yield" -> "dividendYield"
                      [] field = "fifty_day_average" -> "fiftyDayAverage"

\* C9: get_stock_info never raises; on a provider failure it returns only
\* the error marker with the description; on success it returns the three
\* fields, each the provider's value or absent when the provider omits it.
StockInfoErrorOrPassThrough ==
    result.op = "get_stock_info" =>
        /\ result.exc = None
        /\ IF result.in.info # "ok"
           THEN result.out = [error |-> result.in.info]
           ELSE /\ DOMAIN result.out =
                       {"current_price", "dividend_yield", "fifty_day_average"}
                /\ \A f \in DOMAIN result.out :
                      IF InfoKeyOf(f) \in DOMAIN result.in.dict
                      THEN result.out[f] = result.in.dict[InfoKeyOf(f)]
                      ELSE result.out[f] = None

\* C9 witness: the provider answered without a dividend yield
StockInfoWithoutDividend ==
    /\ result.op = "get_stock_info"
    /\ result.in.info = "ok"
    /\ DOMAIN result.in.dict = {"currentPrice", "fiftyDayAverage"}
    /\ result.out.dividend_yield = None
    /\ result.out.current_price = "189.50"

IsPrefix(s, t) == Len(s) <= Len(t) /\ SubSeq(t, 1, Len(s)) = s
AssistantTurns(h) ==
    Cardinality({i \in 1..Len(h) : h[i].role = "assistant"})
Last(h) == h[Len(h)]

\* the state part of C10
HistoryWellFormed ==
    LET h == conversation_history
    IN  /\ AssistantTurns(h) <= UserTurns(h)
        /\ \A i \in 1..Len(h) :
              h[i].role = "assistant" => (i > 1 /\ h[i - 1].role = "user")
        /\ pc = "chat_called" =>
              (h # <<>> /\ Last(h) = [role |-> "user", content |-> pending])
        /\ (/\ pc = "prompt" /\ result.op = "get_response"
             /\ \E e \in ChatErrors : result.out = Apology(e)) =>
               /\ result.exc = None
               /\ h # <<>>
               /\ Last(h) = [role |-> "user", content |-> result.in]

\* the step part of C10
HistoryStep ==
    LET h == conversation_history
        hn == conversation_history'
    IN  /\ IsPrefix(h, hn)
        /\ Len(hn) <= Len(h) + 1
        /\ (hn # h /\ Last(hn).role = "assistant") =>
              /\ pc = "chat_called"
              /\ Last(h) = [role |-> "user", content |-> pending]
              /\ result'.op = "get_response"
              /\ result'.out = Last(hn).content

\* C10: conversation_history is append-only; the user turn is appended
\* before the provider is called; an assistant turn is appended only on
\* success, directly after that call's user turn; a failed call returns the
\* apology without raising and leaves its user turn; assistant turns never
\* outnumber user turns and each follows a user turn.
HistoryAppendOnly == []HistoryWellFormed /\ [][HistoryStep]_vars

\* C10 witness: a failed call after a successful one left its user turn
FailedTurnKept ==
    /\ pc = "prompt"
    /\ result.op = "get_response"
    /\ result.out = Apology("APIError")
    /\ Len(conversation_history) = 3
    /\ conversation_history[2].role = "assistant"
    /\ conversation_history[3].role = "user"

=============================================================================
